---------------------------- MODULE Spec2Model ----------------------------
(***************************************************************************)
(* Phone-campaign manager (componentsapp): the persisted campaign list     *)
(* (localStorage "campaigns"), the list rendered by CampaignList (the      *)
(* data of the react-query "campaigns" query), the create/edit form        *)
(* (CampaignForm) and the dialogs of CampaignList.                         *)
(*                                                                         *)
(* Time is counted in ticks; a minute has TicksPerMinute ticks.  A Date is *)
(* a tick count; a persisted date string "dd/MM/yyyy HH:mm" is modelled by *)
(* the number of the minute it names.  Strings that the code inspects      *)
(* character by character (phones, names) are sequences of one-character   *)
(* strings.                                                                *)
(***************************************************************************)
EXTENDS Naturals, Sequences, FiniteSets

VARIABLES
  now,                     \* the wall clock (Date.now()), in ticks
  store,                   \* localStorage "campaigns": the persisted list
  campaigns,               \* data of useQuery("campaigns") = CampaignList's prop
  deletingCampaign,        \* CampaignList state: id of the campaign, 0 for null
  addingPersonToCampaign,  \* CampaignList state: id of the campaign, 0 for null
  showForm,                \* a CampaignForm is mounted
  formCampaign,            \* its campaign prop: <<>> (undefined) or <<campaign>>,
                           \* of which the fields read after mounting are kept
  people,                  \* CampaignForm state: people
  uuid,                    \* the number of uuidv4() calls so far
  lastWrite,               \* history, not program state: who saved last and
                           \* what the saves from a stale list put behind
  probe                    \* not program state: the argument and the results
                           \* of a pure function applied on its own (PhoneSpec,
                           \* DateSpec); empty in Spec

vars == <<now, store, campaigns, deletingCampaign, addingPersonToCampaign,
          showForm, formCampaign, people, uuid, lastWrite, probe>>

-----------------------------------------------------------------------------
(* Bounds of the model *)

MaxTime == 2
TicksPerMinute == 2
MaxCampaigns == 1
MaxRoster == 2
MaxUuid == 3

-----------------------------------------------------------------------------
(* Types (src/unnamed/part_000) *)

Waiting == "En espera"
Active == "Activa"
Finished == "Finalizada"

CampaignStatus == {Active, Finished, Waiting}

\* The order of the statuses: "En espera" < "Activa" < "Finalizada".
Rank(status) == IF status = Waiting THEN 0 ELSE IF status = Active THEN 1 ELSE 2

Min(a, b) == IF a < b THEN a ELSE b

-----------------------------------------------------------------------------
(* Dates *)

\* format(date, "dd/MM/yyyy HH:mm"): the minute the date lies in; seconds
\* and milliseconds are dropped.
formatDate(date) == date \div TicksPerMinute

\* Variant of parseDate: the seconds are taken from the reference date, here
\* the last tick of the minute.
parseDate_KeepsSeconds(dateString) ==
  dateString * TicksPerMinute + (TicksPerMinute - 1)

\* parse(dateString, "dd/MM/yyyy HH:mm", new Date()): the first instant of
\* the minute the string names.
parseDate(dateString) == dateString * TicksPerMinute

-----------------------------------------------------------------------------
(* Status reconciliation (the query function of useQuery("campaigns")) *)

\* Variant of newStatus: the status is derived from the dates alone.
newStatus_FromDates(campaign, t) ==
  IF t >= parseDate(campaign.endDate) THEN Finished
  ELSE IF t >= parseDate(campaign.startDate) THEN Active
  ELSE campaign.status

\* Variant of newStatus: the comparisons are strict.
newStatus_Exclusive(campaign, t) ==
  IF campaign.status = Waiting /\ t > parseDate(campaign.startDate)
    THEN Active
    ELSE IF campaign.status = Active /\ t > parseDate(campaign.endDate)
      THEN Finished
      ELSE campaign.status

\* Variant of newStatus: an active campaign is never finished by a pass.
newStatus_StartOnly(campaign, t) ==
  IF campaign.status = Waiting /\ t >= parseDate(campaign.startDate)
    THEN Active
    ELSE campaign.status

\* The body of the map callback: the status of one campaign at time t.
newStatus(campaign, t) ==
  IF campaign.status = Waiting /\ t >= parseDate(campaign.startDate)
    THEN Active
    ELSE IF campaign.status = Active /\ t >= parseDate(campaign.endDate)
      THEN Finished
      ELSE campaign.status

\* Variant of updateCampaignStatuses: only the changed entries are returned.
updateCampaignStatuses_OnlyChanged(cs, t) ==
  LET Changed(c) == newStatus(c, t) # c.status
      changed == SelectSeq(cs, Changed)
  IN [updatedCampaigns |->
        [i \in DOMAIN changed |->
           [changed[i] EXCEPT !.status = newStatus(changed[i], t)]],
      updated |-> changed # <<>>]

\* updateCampaignStatuses(campaigns) at Date.now() = t, without its save:
\* the mapped list and the flag `updated`.
updateCampaignStatuses(cs, t) ==
  [updatedCampaigns |->
     [i \in DOMAIN cs |-> [cs[i] EXCEPT !.status = newStatus(cs[i], t)]],
   updated |-> \E i \in DOMAIN cs : newStatus(cs[i], t) # cs[i].status]

-----------------------------------------------------------------------------
(* Strings: phones and person names *)

Digits == {"0", "1", "2", "3", "4", "5", "6", "7", "8", "9"}

\* The character class [a-zA-ZáéíóúñÁÉÍÓÚÑ\s] of the name pattern.
NameChars ==
  {"a", "b", "c", "d", "e", "f", "g", "h", "i", "j", "k", "l", "m",
   "n", "o", "p", "q", "r", "s", "t", "u", "v", "w", "x", "y", "z",
   "A", "B", "C", "D", "E", "F", "G", "H", "I", "J", "K", "L", "M",
   "N", "O", "P", "Q", "R", "S", "T", "U", "V", "W", "X", "Y", "Z",
   "á", "é", "í", "ó", "ú", "ñ", "Á", "É", "Í", "Ó", "Ú", "Ñ", " "}

\* /^[a-zA-ZáéíóúñÁÉÍÓÚÑ\s]+$/.test(value)
isValidName(value) ==
  /\ Len(value) >= 1
  /\ \A i \in 1..Len(value) : value[i] \in NameChars

IsDigit(ch) == ch \in Digits

\* value.replace(/\D/g, "")
digitsOnly(value) == SelectSeq(value, IsDigit)

\* s.slice(from, to) with 0 <= from <= to
slice(s, from, to) == SubSeq(s, from + 1, Min(to, Len(s)))

\* Variant of isValidPhoneNumber: the limits are exclusive.
isValidPhoneNumber_Exclusive(phone) ==
  /\ Len(digitsOnly(phone)) > 7
  /\ Len(digitsOnly(phone)) < 15

isValidPhoneNumber(phone) ==
  /\ Len(digitsOnly(phone)) >= 7
  /\ Len(digitsOnly(phone)) <= 15

formatPhoneNumber(value) ==
  IF value = <<>> THEN value
  ELSE LET phoneNumber == digitsOnly(value)
           phoneNumberLength == Len(phoneNumber)
       IN IF phoneNumberLength < 4 THEN phoneNumber
          ELSE IF phoneNumberLength < 7
            THEN <<"(">> \o slice(phoneNumber, 0, 3) \o <<")", " ">>
                 \o slice(phoneNumber, 3, phoneNumberLength)
            ELSE <<"(">> \o slice(phoneNumber, 0, 3) \o <<")", " ">>
                 \o slice(phoneNumber, 3, 6) \o <<"-">>
                 \o slice(phoneNumber, 6, 10)

\* What the user types or pastes into a field.
NameInputs == { <<"A", "n", "a">>, <<"A", "4">> }

PhoneInputs ==
  { <<"5", "5", "5", "1", "2", "3", "4">>,                      \* 7 digits
    <<"5", "5", "5", "-", "1", "2", "3", "4">>,                 \* the same, typed with a dash
    <<"5", "5", "5", "1", "2", "3">>,                           \* 6 digits
    <<"5", "5", "5", "1", "2", "3", "4", "5", "6", "7", "8">> } \* 11 digits

-----------------------------------------------------------------------------
(* CampaignList *)

\* The campaigns of the persisted list old whose status is behind in the
\* list new, with the status they had.
Regressed(old, new) ==
  {[id |-> old[i].id, status |-> old[i].status] :
     i \in {i \in DOMAIN old :
              \E j \in DOMAIN new : /\ new[j].id = old[i].id
                                    /\ Rank(new[j].status) < Rank(old[i].status)}}

\* The history after CampaignList has saved the list new: a save by the
\* user; if the rendered list it was computed from is not the persisted
\* one, the statuses it put behind are recorded until the next pass.
ListSave(new) ==
  [by |-> "user",
   behind |-> lastWrite.behind
                \cup (IF campaigns # store THEN Regressed(store, new) ELSE {})]

\* uuidv4(): every call returns an identifier no earlier call returned; the
\* n-th call returns n.
uuidv4 == uuid + 1

\* campaigns.find((c) => c.id === id): the index of the first match, 0 for
\* undefined.
find(cs, id) ==
  IF \E i \in DOMAIN cs : cs[i].id = id
    THEN CHOOSE i \in DOMAIN cs :
           cs[i].id = id /\ \A j \in 1..(i - 1) : cs[j].id # id
    ELSE 0

\* The mutation functions of CampaignList: each maps or filters the list the
\* component was rendered with, and the result is saved.  onSuccess
\* invalidates the query: the refetch is a later QueryFn step.
\* Variant of finishCampaign: every campaign of the list is finished.
finishCampaign_All(cs, id) ==
  [i \in DOMAIN cs |-> [cs[i] EXCEPT !.status = Finished]]

finishCampaign(cs, id) ==
  [i \in DOMAIN cs |->
     IF cs[i].id = id THEN [cs[i] EXCEPT !.status = Finished] ELSE cs[i]]

deleteCampaign(cs, id) ==
  LET Keep(c) == c.id # id IN SelectSeq(cs, Keep)

updateCampaign(cs, updatedCampaign) ==
  [i \in DOMAIN cs |->
     IF cs[i].id = updatedCampaign.id THEN updatedCampaign ELSE cs[i]]

\* Variant of canFinish: the status is not checked.
canFinish_AnyStatus(cs, id) == find(cs, id) # 0

\* The guard of handleFinish.
canFinish(cs, id) == find(cs, id) # 0 /\ cs[find(cs, id)].status = Active

handleFinish(id) ==
  /\ IF canFinish(campaigns, id)
       THEN /\ store' = finishCampaign(campaigns, id)
            /\ lastWrite' = ListSave(store')
       ELSE UNCHANGED <<store, lastWrite>>
  /\ UNCHANGED <<now, campaigns, deletingCampaign, addingPersonToCampaign,
                 showForm, formCampaign, people, uuid, probe>>

handleDelete(campaign) ==
  /\ IF campaign.status = Waiting
       THEN deletingCampaign' = campaign.id
       ELSE UNCHANGED deletingCampaign
  /\ UNCHANGED <<now, store, campaigns, addingPersonToCampaign,
                 showForm, formCampaign, people, uuid, lastWrite, probe>>

\* ConfirmationModal onClose
cancelDelete ==
  /\ deletingCampaign # 0
  /\ deletingCampaign' = 0
  /\ UNCHANGED <<now, store, campaigns, addingPersonToCampaign,
                 showForm, formCampaign, people, uuid, lastWrite, probe>>

\* ConfirmationModal onConfirm
confirmDelete ==
  /\ deletingCampaign # 0
  /\ store' = deleteCampaign(campaigns, deletingCampaign)
  /\ lastWrite' = ListSave(store')
  /\ deletingCampaign' = 0
  /\ UNCHANGED <<now, campaigns, addingPersonToCampaign,
                 showForm, formCampaign, people, uuid, probe>>

\* Variant of removePerson: the people kept are saved in reverse order.
removePerson_Reversed(roster, personId) ==
  LET Keep(p) == p.id # personId
      kept == SelectSeq(roster, Keep)
  IN [k \in DOMAIN kept |-> kept[Len(kept) + 1 - k]]

\* campaign.people.filter((p) => p.id !== personId)
removePerson(roster, personId) ==
  LET Keep(p) == p.id # personId IN SelectSeq(roster, Keep)

\* Variant of canDeletePerson: the last person is not protected.
canDeletePerson_NoLastPerson(campaign) == campaign.status # Finished

\* The guards of handleDeletePerson.
canDeletePerson(campaign) ==
  campaign.status # Finished /\ ~(Len(campaign.people) <= 1)

handleDeletePerson(campaignId, personId) ==
  LET i == find(campaigns, campaignId) IN
    /\ IF i # 0 /\ canDeletePerson(campaigns[i])
         THEN /\ store' = updateCampaign(campaigns,
                   [campaigns[i] EXCEPT !.people = removePerson(@, personId)])
              /\ lastWrite' = ListSave(store')
         ELSE UNCHANGED <<store, lastWrite>>
    /\ UNCHANGED <<now, campaigns, deletingCampaign, addingPersonToCampaign,
                   showForm, formCampaign, people, uuid, probe>>

\* The "Agregar Persona" button of a card: rendered unless the campaign is
\* finished.
openAddPerson(campaign) ==
  /\ campaign.status # Finished
  /\ addingPersonToCampaign' = campaign.id
  /\ UNCHANGED <<now, store, campaigns, deletingCampaign,
                 showForm, formCampaign, people, uuid, lastWrite, probe>>

cancelAddPerson ==
  /\ addingPersonToCampaign # 0
  /\ addingPersonToCampaign' = 0
  /\ UNCHANGED <<now, store, campaigns, deletingCampaign,
                 showForm, formCampaign, people, uuid, lastWrite, probe>>

\* roster.some((person) => person.phone === phone)
hasPhone(roster, phone) == \E k \in DOMAIN roster : roster[k].phone = phone

\* The three field checks of handleAddPerson and addPerson.
isValidPerson(name, lastName, phone) ==
  /\ isValidName(name)
  /\ isValidName(lastName)
  /\ isValidPhoneNumber(phone)

\* The errors one press of "Agregar" reports for the given fields and
\* roster (handleAddPerson, and addPerson of the form): the three field
\* errors it sets, or, only when there is none, the toast for a phone that
\* is already in the roster.
personErrors(roster, name, lastName, phone) ==
  LET fieldErrors ==
        (IF isValidName(name) THEN {} ELSE {"nameError"})
          \cup (IF isValidName(lastName) THEN {} ELSE {"lastNameError"})
          \cup (IF isValidPhoneNumber(phone) THEN {} ELSE {"phoneError"})
  IN IF fieldErrors # {} THEN fieldErrors
     ELSE IF hasPhone(roster, phone) THEN {"duplicatePhone"} ELSE {}

\* Variant of canAddPerson: the roster is not searched for the phone.
canAddPerson_NoDuplicateCheck(campaign, name, lastName, phone) ==
  isValidPerson(name, lastName, phone)

\* Whether handleAddPerson adds the person to the campaign.
canAddPerson(campaign, name, lastName, phone) ==
  /\ isValidPerson(name, lastName, phone)
  /\ ~hasPhone(campaign.people, phone)

\* The "Agregar" button of the overlay, which is shown in the card of the
\* campaign whose id is addingPersonToCampaign.id; the phone field holds
\* formatPhoneNumber of what was typed.
handleAddPerson(campaignId, newPersonName, newPersonLastName, typedPhone) ==
  LET newPersonPhone == formatPhoneNumber(typedPhone)
      i == find(campaigns, campaignId)
  IN
    /\ addingPersonToCampaign = campaignId
    /\ i # 0
    /\ IF canAddPerson(campaigns[i], newPersonName, newPersonLastName,
                       newPersonPhone)
         THEN /\ Len(campaigns[i].people) < MaxRoster
              /\ uuid < MaxUuid
              /\ uuid' = uuid + 1
              /\ LET newPerson == [id |-> uuidv4,
                                   name |-> newPersonName,
                                   lastName |-> newPersonLastName,
                                   phone |-> newPersonPhone]
                 IN store' = updateCampaign(campaigns,
                      [campaigns[i] EXCEPT !.people = Append(@, newPerson)])
              /\ lastWrite' = ListSave(store')
              /\ addingPersonToCampaign' = 0
         ELSE UNCHANGED <<store, addingPersonToCampaign, uuid, lastWrite>>
    /\ UNCHANGED <<now, campaigns, deletingCampaign, showForm, formCampaign,
                   people, probe>>

-----------------------------------------------------------------------------
(* CampaignForm *)

\* value.trim()
trim(value) ==
  IF \A i \in DOMAIN value : value[i] = " " THEN <<>>
  ELSE LET NonBlank == {i \in DOMAIN value : value[i] # " "}
           first == CHOOSE i \in NonBlank : \A j \in NonBlank : i <= j
           last == CHOOSE i \in NonBlank : \A j \in NonBlank : j <= i
       IN SubSeq(value, first, last)

\* Variant of validateDates: the start date is not compared with the clock.
validateDates_NoStartCheck(status, startDate, endDate, t) ==
  LET endDateError == endDate <= (IF status = Waiting THEN startDate ELSE t)
  IN [startDateError |-> FALSE, endDateError |-> endDateError,
      isValid |-> ~endDateError]

\* validateDates(status, startDate, endDate) at new Date() = t, for dates
\* that are set.
validateDates(status, startDate, endDate, t) ==
  LET startDateError == status = Waiting /\ startDate < t
      endDateError == endDate <= (IF status = Waiting THEN startDate ELSE t)
  IN [startDateError |-> startDateError, endDateError |-> endDateError,
      isValid |-> ~startDateError /\ ~endDateError]

isFormValid(name, status, startDate, endDate, t) ==
  IF trim(name) = <<>> \/ Len(people) = 0
    THEN FALSE
    ELSE validateDates(status, startDate, endDate, t).isValid

\* What the user can enter in the form.  The date pickers give any instant
\* up to one tick after the end of the clock's range.
CampaignNames == { <<" ">>, <<"Q", "1">> }
RecordingInputs == {TRUE}
DateInputs == 0..(MaxTime + 1)

\* The start date field when the form is submitted at time t.  With status
\* "Activa" the effect on status has set it to new Date() (updateStartDate)
\* and the picker still lets the user set another instant; handleSubmit then
\* persists new Date() whatever it holds, so two values stand for all.
StartDateInputs(status, t) ==
  IF status = Active THEN {t, MaxTime + 1} ELSE DateInputs

\* The end date field.  With a blank name the submission is rejected before
\* the dates are looked at (isFormValid), so one value stands for all.
EndDateInputs(name) ==
  IF trim(name) = <<>> THEN {MaxTime + 1} ELSE DateInputs

\* The status field: the campaign's status when editing, "En espera"
\* otherwise, and the two options of the select.
StatusInputs ==
  {Waiting, Active} \cup {formCampaign[k].status : k \in DOMAIN formCampaign}

\* The fields of the campaign prop that the form reads after it is mounted
\* (name, dates and recordingStatus only seed fields the user can edit).
propFields(campaign) ==
  [id |-> campaign.id, createdAt |-> campaign.createdAt,
   status |-> campaign.status, people |-> campaign.people]

\* A CampaignForm is mounted, for a new campaign (prop = <<>>) or to edit
\* the campaign given as its prop; its state is initialised from the prop.
mountCampaignForm(prop) ==
  /\ ~showForm
  /\ showForm' = TRUE
  /\ formCampaign' = [k \in DOMAIN prop |-> propFields(prop[k])]
  /\ people' = IF prop = <<>> THEN <<>> ELSE prop[1].people
  /\ UNCHANGED <<now, store, campaigns, deletingCampaign,
                 addingPersonToCampaign, uuid, lastWrite, probe>>

\* onClose: the form is unmounted.
onClose ==
  /\ showForm
  /\ showForm' = FALSE
  /\ formCampaign' = <<>>
  /\ people' = <<>>
  /\ UNCHANGED <<now, store, campaigns, deletingCampaign,
                 addingPersonToCampaign, uuid, lastWrite, probe>>

\* The "Agregar Persona" button of the form; the phone field holds
\* formatPhoneNumber of what was typed.
addPerson(personName, personLastName, typedPhone) ==
  LET personPhone == formatPhoneNumber(typedPhone) IN
    /\ showForm
    /\ IF /\ isValidPerson(personName, personLastName, personPhone)
          /\ ~hasPhone(people, personPhone)
         THEN /\ Len(people) < MaxRoster
              /\ uuid < MaxUuid
              /\ uuid' = uuid + 1
              /\ people' = Append(people,
                   [id |-> uuidv4, name |-> personName,
                    lastName |-> personLastName, phone |-> personPhone])
         ELSE UNCHANGED <<people, uuid>>
    /\ UNCHANGED <<now, store, campaigns, deletingCampaign,
                   addingPersonToCampaign, showForm, formCampaign, lastWrite,
                   probe>>

\* Variant of newCampaign: the start date entered is kept for every status.
newCampaign_UserStart(name, status, startDate, endDate, recordingStatus, t) ==
  LET editing == formCampaign # <<>>
  IN [id |-> IF editing THEN formCampaign[1].id ELSE uuidv4,
      name |-> name,
      createdAt |-> IF editing THEN formCampaign[1].createdAt
                               ELSE formatDate(t),
      startDate |-> formatDate(startDate),
      endDate |-> formatDate(endDate),
      recordingStatus |-> recordingStatus,
      status |-> status,
      people |-> (IF editing THEN formCampaign[1].people ELSE <<>>) \o people]

\* Variant of newCampaign: createdAt is the time of the submission, in an
\* update too.
newCampaign_NewCreatedAt(name, status, startDate, endDate, recordingStatus, t) ==
  LET editing == formCampaign # <<>>
      actualStartDate == IF status = Active THEN t ELSE startDate
  IN [id |-> IF editing THEN formCampaign[1].id ELSE uuidv4,
      name |-> name,
      createdAt |-> formatDate(t),
      startDate |-> formatDate(actualStartDate),
      endDate |-> formatDate(endDate),
      recordingStatus |-> recordingStatus,
      status |-> status,
      people |-> (IF editing THEN formCampaign[1].people ELSE <<>>) \o people]

\* The campaign handleSubmit builds from the form's fields at new Date() = t.
newCampaign(name, status, startDate, endDate, recordingStatus, t) ==
  LET editing == formCampaign # <<>>
      actualStartDate == IF status = Active THEN t ELSE startDate
  IN [id |-> IF editing THEN formCampaign[1].id
                        ELSE uuidv4,
      name |-> name,
      createdAt |-> IF editing THEN formCampaign[1].createdAt
                               ELSE formatDate(t),
      startDate |-> formatDate(actualStartDate),
      endDate |-> formatDate(endDate),
      recordingStatus |-> recordingStatus,
      status |-> status,
      people |-> (IF editing THEN formCampaign[1].people ELSE <<>>) \o people]

\* The mutation function of the form: it reads the persisted list, replaces
\* the edited campaign or appends the new one, and the result is saved.
mutation(cs, c) ==
  IF formCampaign # <<>>
    THEN [i \in DOMAIN cs |->
            IF cs[i].id = formCampaign[1].id THEN c ELSE cs[i]]
    ELSE Append(cs, c)

\* Submitting the form with the given field values; onSuccess closes it.
handleSubmit(name, status, startDate, endDate, recordingStatus) ==
  /\ showForm
  /\ IF isFormValid(name, status, startDate, endDate, now)
       THEN LET c == newCampaign(name, status, startDate, endDate,
                                 recordingStatus, now)
            IN /\ Len(c.people) <= MaxRoster
               /\ formCampaign # <<>>
                    \/ (Len(store) < MaxCampaigns /\ uuid < MaxUuid)
               /\ store' = mutation(store, c)
               /\ lastWrite' = [lastWrite EXCEPT !.by = "user"]
               /\ uuid' = IF formCampaign # <<>> THEN uuid ELSE uuid + 1
               /\ showForm' = FALSE
               /\ formCampaign' = <<>>
               /\ people' = <<>>
       ELSE UNCHANGED <<store, showForm, formCampaign, people, uuid,
                        lastWrite>>
  /\ UNCHANGED <<now, campaigns, deletingCampaign, addingPersonToCampaign,
                 probe>>

-----------------------------------------------------------------------------
\* No pure function is applied on its own.
NoProbe == [arg |-> <<>>, res |-> <<>>]

\* The state after construction: nothing persisted, nothing fetched, no
\* dialog, no form.
Constructed ==
  /\ now = 0
  /\ store = <<>>
  /\ campaigns = <<>>
  /\ deletingCampaign = 0
  /\ addingPersonToCampaign = 0
  /\ showForm = FALSE
  /\ formCampaign = <<>>
  /\ people = <<>>
  /\ uuid = 0
  /\ lastWrite = [by |-> "none", behind |-> {}]

Init == Constructed /\ probe = NoProbe

\* The clock advances.
Tick ==
  /\ now < MaxTime
  /\ now' = now + 1
  /\ UNCHANGED <<store, campaigns, deletingCampaign, addingPersonToCampaign,
                 showForm, formCampaign, people, uuid, lastWrite, probe>>

\* One run of the query function: getCampaigns, updateCampaignStatuses
\* (which saves when a status changed), and the result becomes the query's
\* data.  It runs on mount, every refetchInterval and after invalidateQueries.
QueryFn ==
  LET r == updateCampaignStatuses(store, now) IN
    /\ store' = IF r.updated THEN r.updatedCampaigns ELSE store
    /\ campaigns' = r.updatedCampaigns
    /\ lastWrite' = [by |-> IF r.updated THEN "reconciler" ELSE lastWrite.by,
                     behind |-> {}]
    /\ UNCHANGED <<now, deletingCampaign, addingPersonToCampaign,
                   showForm, formCampaign, people, uuid, probe>>

Next ==
  \/ Tick
  \/ QueryFn
  \/ \E id \in 1..MaxUuid : handleFinish(id)
  \/ \E i \in DOMAIN campaigns : handleDelete(campaigns[i])
  \/ cancelDelete
  \/ confirmDelete
  \/ \E i \in DOMAIN campaigns : \E k \in DOMAIN campaigns[i].people :
       handleDeletePerson(campaigns[i].id, campaigns[i].people[k].id)
  \/ \E i \in DOMAIN campaigns : openAddPerson(campaigns[i])
  \/ cancelAddPerson
  \/ \E i \in DOMAIN campaigns : \E n \in NameInputs, l \in NameInputs,
        ph \in PhoneInputs : handleAddPerson(campaigns[i].id, n, l, ph)
  \/ \E prop \in {<<>>} \cup {<<campaigns[i]>> : i \in DOMAIN campaigns} :
       mountCampaignForm(prop)
  \/ onClose
  \/ \E n \in NameInputs, l \in NameInputs, ph \in PhoneInputs :
       addPerson(n, l, ph)
  \/ \E name \in CampaignNames, status \in StatusInputs :
       \E startDate \in StartDateInputs(status, now),
          endDate \in EndDateInputs(name),
          recordingStatus \in RecordingInputs :
         handleSubmit(name, status, startDate, endDate, recordingStatus)

Spec == Init /\ [][Next]_vars

\* The query refetches every refetchInterval and the clock keeps advancing
\* (up to the end of its range): a pass that would change something, and a
\* tick, are not put off forever.
FairSpec == Spec /\ WF_vars(QueryFn) /\ WF_vars(Tick)

-----------------------------------------------------------------------------
(* A session that starts with campaigns persisted by an earlier session, in
   which the user works with the list only *)

\* The n-th identifier uuidv4() returned in the earlier session: none that a
\* call of this session returns.
earlier(n) == MaxUuid + n

\* What getCampaigns() returns when the page is loaded: two campaigns created
\* earlier in the first minute, one running with one person, one waiting
\* with three people.
Persisted ==
  << [id |-> earlier(1), name |-> <<"Q", "1">>, createdAt |-> 0,
      startDate |-> 0, endDate |-> 1, recordingStatus |-> TRUE,
      status |-> Active,
      people |-> << [id |-> earlier(3), name |-> <<"A", "n", "a">>,
                     lastName |-> <<"A", "n", "a">>,
                     phone |-> formatPhoneNumber(
                                 <<"5", "5", "5", "1", "2", "3", "4">>)] >>],
     [id |-> earlier(2), name |-> <<"Q", "1">>, createdAt |-> 0,
      startDate |-> 1, endDate |-> 2, recordingStatus |-> TRUE,
      status |-> Waiting,
      people |-> << [id |-> earlier(4), name |-> <<"A", "n", "a">>,
                     lastName |-> <<"A", "n", "a">>,
                     phone |-> formatPhoneNumber(
                                 <<"5", "5", "5", "1", "2", "3", "4">>)],
                    [id |-> earlier(5), name |-> <<"A", "n", "a">>,
                     lastName |-> <<"A", "n", "a">>,
                     phone |-> formatPhoneNumber(
                                 <<"5", "5", "5", "1", "2", "3", "4",
                                   "5", "6", "7", "8">>)],
                    [id |-> earlier(6), name |-> <<"A", "n", "a">>,
                     lastName |-> <<"A", "n", "a">>,
                     phone |-> formatPhoneNumber(
                                 <<"5", "5", "5", "1", "2", "3", "4",
                                   "5">>)] >>] >>

ListInit ==
  /\ now = 0
  /\ store = Persisted
  /\ campaigns = <<>>
  /\ deletingCampaign = 0
  /\ addingPersonToCampaign = 0
  /\ showForm = FALSE
  /\ formCampaign = <<>>
  /\ people = <<>>
  /\ uuid = 0
  /\ lastWrite = [by |-> "none", behind |-> {}]
  /\ probe = NoProbe

\* The clock, the query function and the buttons of the cards and dialogs of
\* CampaignList.
ListNext ==
  \/ Tick
  \/ QueryFn
  \/ \E i \in DOMAIN campaigns : handleFinish(campaigns[i].id)
  \/ \E i \in DOMAIN campaigns : handleDelete(campaigns[i])
  \/ cancelDelete
  \/ confirmDelete
  \/ \E i \in DOMAIN campaigns : \E k \in DOMAIN campaigns[i].people :
       handleDeletePerson(campaigns[i].id, campaigns[i].people[k].id)
  \/ \E i \in DOMAIN campaigns : openAddPerson(campaigns[i])
  \/ cancelAddPerson
  \/ \E i \in DOMAIN campaigns : \E n \in NameInputs, l \in NameInputs,
        ph \in PhoneInputs : handleAddPerson(campaigns[i].id, n, l, ph)

ListSpec == ListInit /\ [][ListNext]_vars

\* The same session with passes and ticks that are not put off forever.
FairListSpec == ListSpec /\ WF_vars(QueryFn) /\ WF_vars(Tick)

-----------------------------------------------------------------------------
(* The pure functions applied on their own *)

appVars == <<now, store, campaigns, deletingCampaign, addingPersonToCampaign,
             showForm, formCampaign, people, uuid, lastWrite>>

\* k times the character ch
Repeat(ch, k) == [i \in 1..k |-> ch]

\* Phone strings of 0 to MaxDigits digits, plain or written with the usual
\* signs before and between the digits.
MaxDigits == 17
MaxPrefix == 9

PhoneProbes ==
  { pre \o Repeat("5", k) \o mid \o Repeat("1", m) :
      pre \in {<<>>, <<"+">>, <<"(">>}, mid \in {<<>>, <<"-">>, <<")", " ">>},
      k \in 0..MaxPrefix, m \in 0..(MaxDigits - MaxPrefix) }

PhoneInit ==
  /\ Constructed
  /\ probe \in {[arg |-> <<phone>>, res |-> <<>>] : phone \in PhoneProbes}

\* isValidPhoneNumber is applied to the phone.
validatePhone ==
  /\ probe.res = <<>>
  /\ probe' = [probe EXCEPT !.res = <<isValidPhoneNumber(probe.arg[1])>>]
  /\ UNCHANGED appVars

PhoneNext == validatePhone

PhoneSpec == PhoneInit /\ [][PhoneNext]_vars

\* Timestamps, in ticks.
MaxTimestamp == 60

DateInit ==
  /\ Constructed
  /\ probe \in {[arg |-> <<date>>, res |-> <<>>] : date \in 0..MaxTimestamp}

\* formatDate is applied to the timestamp, or to the date parsed last.
format ==
  /\ Len(probe.res) \in {0, 2}
  /\ probe' = [probe EXCEPT !.res =
       Append(@, formatDate(IF @ = <<>> THEN probe.arg[1] ELSE @[2]))]
  /\ UNCHANGED appVars

\* parseDate is applied to the string formatted last.
parse ==
  /\ Len(probe.res) = 1
  /\ probe' = [probe EXCEPT !.res = Append(@, parseDate(@[1]))]
  /\ UNCHANGED appVars

DateNext == format \/ parse

DateSpec == DateInit /\ [][DateNext]_vars

-----------------------------------------------------------------------------
(* Properties *)

\* The time t is at or after the persisted date.
Passed(dateString, t) == t >= parseDate(dateString)

CampaignIds(cs) == {cs[i].id : i \in DOMAIN cs}

\* The steps of CampaignList that act on the campaign with the given id.
AddPersonStep(id) ==
  \E n \in NameInputs, l \in NameInputs, ph \in PhoneInputs :
    handleAddPerson(id, n, l, ph)

RemovePersonStep(id) == \E personId \in 1..MaxUuid : handleDeletePerson(id, personId)

DeleteStep(id) == deletingCampaign = id /\ confirmDelete

\* A step that changes what handleFinish and handleDeletePerson can change,
\* the persisted list and the history of its saves, and nothing else.
ListFrame ==
  /\ store' # store \/ lastWrite' # lastWrite
  /\ UNCHANGED <<now, campaigns, deletingCampaign, addingPersonToCampaign,
                 showForm, formCampaign, people, uuid, probe>>

\* C1: a reconciliation pass never moves a campaign's status backward: in
\* the list it saves and in the list it returns, every campaign has a status
\* at least as advanced as the one it was loaded with (the clock never runs
\* backward, so this holds along every sequence of passes).
C1_MonotonicReconciliation ==
  [][QueryFn =>
       /\ Len(store') = Len(store)
       /\ Len(campaigns') = Len(store)
       /\ \A i \in DOMAIN store :
            /\ Rank(store'[i].status) >= Rank(store[i].status)
            /\ Rank(campaigns'[i].status) >= Rank(store[i].status)
            /\ store[i].status = Finished => store'[i].status = Finished]_vars

\* C1 witness: a pass has taken a campaign to "Finalizada": the rendered
\* list is the persisted one and a finished campaign's end date has passed.
C1_Witness ==
  /\ campaigns = store
  /\ \E i \in DOMAIN store :
       store[i].status = Finished /\ Passed(store[i].endDate, now)

\* C2: in the persisted list a campaign's status never moves backward,
\* whatever step is taken.
C2_PersistedStatusNeverRegresses ==
  [][\A i \in DOMAIN store : \A j \in DOMAIN store' :
       store'[j].id = store[i].id
         => Rank(store'[j].status) >= Rank(store[i].status)]_vars

\* C3: one pass takes a waiting campaign whose start and end
\* dates have both passed to "Finalizada".
C3_DoubleTransitionInOnePass ==
  [][QueryFn =>
       \A i \in DOMAIN store :
         (/\ store[i].status = Waiting
          /\ Passed(store[i].startDate, now)
          /\ Passed(store[i].endDate, now))
           => store'[i].status = Finished]_vars

\* C4: a step that adds a person to, removes a person from or deletes a
\* campaign that is persisted as "Finalizada" leaves the persisted campaign
\* as it is.  Stated for steps taken while the rendered list is the
\* persisted one, so that the dialogs are the only thing opened earlier.
C4_FinishedIsImmutable ==
  [][\A i \in DOMAIN store :
       (/\ campaigns = store
        /\ store[i].status = Finished
        /\ \/ AddPersonStep(store[i].id)
           \/ RemovePersonStep(store[i].id)
           \/ DeleteStep(store[i].id))
         => /\ i \in DOMAIN store'
            /\ store'[i] = store[i]]_vars

\* C5: a campaign leaves the persisted list only if it is persisted as
\* "En espera" when the removal is saved.  Stated for removals confirmed
\* while the rendered list is the persisted one: the confirmation dialog is
\* the only thing opened earlier.
C5_OnlyWaitingIsRemoved ==
  [][\A i \in DOMAIN store :
       (/\ campaigns = store
        /\ DeleteStep(store[i].id)
        /\ store[i].id \notin CampaignIds(store'))
         => store[i].status = Waiting]_vars

\* C6: handleFinish saves only when the campaign with the given id is in the
\* list it reads and is "Activa" there, and then that campaign is persisted
\* as "Finalizada"; for a campaign that is waiting or finished and for an
\* unknown id the persisted list is left as it is.
C6_FinishOnlyActive ==
  [][ListFrame =>
       \A id \in 1..MaxUuid :
         handleFinish(id) =>
           IF \E i \in DOMAIN campaigns :
                campaigns[i].id = id /\ campaigns[i].status = Active
             THEN /\ id \in CampaignIds(store')
                  /\ \A j \in DOMAIN store' :
                       store'[j].id = id => store'[j].status = Finished
             ELSE store' = store]_vars

\* C6 witness: a campaign has been finished by hand: it is persisted as
\* "Finalizada" before its end date.
C6_Witness ==
  \E i \in DOMAIN store :
    store[i].status = Finished /\ ~Passed(store[i].endDate, now)

\* C7: no persisted roster holds two people whose phones have the same
\* digits.
C7_UniquePhones ==
  \A i \in DOMAIN store :
    \A k, m \in DOMAIN store[i].people :
      k # m => digitsOnly(store[i].people[k].phone)
                 # digitsOnly(store[i].people[m].phone)

\* C8: every persisted campaign has at least one person.
C8_RosterNeverEmpty ==
  \A i \in DOMAIN store : Len(store[i].people) >= 1

\* The number of entries of the roster that have the given id.
Count(roster, personId) ==
  Cardinality({k \in DOMAIN roster : roster[k].id = personId})

\* sub is the roster seq without the entries that have the given id: the
\* entries kept are all there, in their order.
IsRemainder(sub, seq, personId) ==
  /\ Len(sub) = Len(seq) - Count(seq, personId)
  /\ \A k \in DOMAIN sub : sub[k].id # personId
  /\ \E f \in [DOMAIN sub -> DOMAIN seq] :
       /\ \A k \in DOMAIN sub : sub[k] = seq[f[k]]
       /\ \A k, m \in DOMAIN sub : k < m => f[k] < f[m]

\* C9: handleDeletePerson, for a campaign of the list it reads.  If the
\* campaign has exactly one person nothing is saved, so the persisted roster
\* keeps its size; if it is not finished and has more than one person, the
\* roster saved for it is the roster read without the person with the given
\* id, the others in their order.
C9_LastPersonProtection ==
  [][ListFrame =>
       \A i \in DOMAIN campaigns : \A personId \in 1..MaxUuid :
         handleDeletePerson(campaigns[i].id, personId) =>
           /\ Len(campaigns[i].people) = 1 => store' = store
           /\ (campaigns[i].status # Finished /\ Len(campaigns[i].people) > 1)
                => \E j \in DOMAIN store' :
                     /\ store'[j].id = campaigns[i].id
                     /\ IsRemainder(store'[j].people, campaigns[i].people,
                                    personId)]_vars

\* C9 witness: a person has been removed: the rendered campaign has two
\* people with different ids and the persisted one has exactly one of them.
C9_Witness ==
  \E i \in DOMAIN campaigns : \E j \in DOMAIN store :
    /\ store[j].id = campaigns[i].id
    /\ campaigns[i].status # Finished
    /\ Len(campaigns[i].people) = 2
    /\ campaigns[i].people[1].id # campaigns[i].people[2].id
    /\ Len(store[j].people) = 1
    /\ \E k \in 1..2 : store[j].people = <<campaigns[i].people[k]>>

\* The persisted campaign with the given id, after a person was appended
\* to its roster.
WithPersonAdded(cs, id, person) ==
  updateCampaign(cs, [cs[find(cs, id)] EXCEPT !.people = Append(@, person)])

\* The persisted campaign with the given id, without the person.
WithPersonRemoved(cs, id, personId) ==
  updateCampaign(cs,
    [cs[find(cs, id)] EXCEPT !.people = removePerson(@, personId)])

\* C10: every mutation of CampaignList that saves, saves the persisted list
\* with its one change applied: finish, delete, remove person, add person.
C10_ReadModifyWrite ==
  [][/\ \A id \in 1..MaxUuid :
          (handleFinish(id) /\ store' # store)
            => store' = finishCampaign(store, id)
     /\ (confirmDelete /\ store' # store)
          => store' = deleteCampaign(store, deletingCampaign)
     /\ \A i \in DOMAIN campaigns : \A personId \in 1..MaxUuid :
          (handleDeletePerson(campaigns[i].id, personId) /\ store' # store)
            => /\ find(store, campaigns[i].id) # 0
               /\ store' = WithPersonRemoved(store, campaigns[i].id, personId)
     /\ \A i \in DOMAIN campaigns :
          (AddPersonStep(campaigns[i].id) /\ store' # store)
            => /\ find(store, campaigns[i].id) # 0
               /\ \E j \in DOMAIN store' : \E k \in DOMAIN store'[j].people :
                    store' = WithPersonAdded(store, campaigns[i].id,
                                             store'[j].people[k])]_vars

\* C12: a pass leaves a list on which a second pass at the same clock value
\* changes nothing: the second pass reports no update (so it does not save)
\* and returns the list the first pass returned.
C12_IdempotentReconciliation ==
  [][QueryFn =>
       LET second == updateCampaignStatuses(store', now) IN
         /\ ~second.updated
         /\ second.updatedCampaigns = campaigns']_vars

\* C13: the comparisons of a pass are inclusive.  A waiting campaign at its
\* start date is "Activa" after the pass and an active one at its end date is
\* "Finalizada"; a waiting campaign before its start date, an active one
\* before its end date and a finished one are returned and persisted as they
\* were.
C13_InclusiveComparisons ==
  [][QueryFn =>
       \A i \in DOMAIN store :
         LET c == store[i] IN
           /\ (c.status = Waiting /\ now = parseDate(c.startDate))
                => campaigns'[i].status = Active /\ store'[i].status = Active
           /\ (c.status = Active /\ now = parseDate(c.endDate))
                => /\ campaigns'[i].status = Finished
                   /\ store'[i].status = Finished
           /\ (\/ c.status = Waiting /\ now < parseDate(c.startDate)
               \/ c.status = Active /\ now < parseDate(c.endDate)
               \/ c.status = Finished)
                => campaigns'[i] = c /\ store'[i] = c]_vars

\* C13 witness: a campaign created before its start date is "Activa" at the
\* very instant of its start date, in the list a pass has just returned.
C13_Witness ==
  /\ campaigns = store
  /\ \E i \in DOMAIN store :
       /\ store[i].status = Active
       /\ store[i].createdAt < store[i].startDate
       /\ now = parseDate(store[i].startDate)

\* C14: every persisted campaign has its start date before its end date, as
\* stored (minute precision).
C14_StartBeforeEnd ==
  \A i \in DOMAIN store : store[i].startDate < store[i].endDate

\* The campaign a create has just appended to the persisted list.
created == store'[Len(store')]

\* C15: a create with status "Activa" persists the campaign with the minute
\* of the submission as its start date and as its createdAt, whatever the
\* start date field holds.
C15_ActiveStartsAtSubmission ==
  [][(store' # store /\ showForm /\ formCampaign = <<>>)
       => \A name \in CampaignNames, startDate \in DateInputs,
             endDate \in DateInputs, recordingStatus \in RecordingInputs :
            handleSubmit(name, Active, startDate, endDate, recordingStatus)
              => /\ Len(store') = Len(store) + 1
                 /\ created.status = Active
                 /\ created.startDate = formatDate(now)
                 /\ created.createdAt = formatDate(now)]_vars

\* C15 witness: a campaign created as "Activa" in the second minute is
\* persisted and not yet fetched; its start date is that minute.
C15_Witness ==
  /\ Len(campaigns) < Len(store)
  /\ store[Len(store)].status = Active
  /\ store[Len(store)].startDate = formatDate(now)
  /\ formatDate(now) >= 1

\* C16: a create with status "En espera" persists a campaign only if the
\* start date entered is not before the submission time (otherwise nothing
\* is persisted), and the campaign it persists has a start date at or after
\* its createdAt.
C16_WaitingStartsAfterCreation ==
  [][(store' # store /\ showForm /\ formCampaign = <<>>)
       => \A name \in CampaignNames, startDate \in DateInputs,
             endDate \in DateInputs, recordingStatus \in RecordingInputs :
            handleSubmit(name, Waiting, startDate, endDate, recordingStatus)
              => /\ startDate >= now
                 /\ Len(store') = Len(store) + 1
                 /\ created.status = Waiting
                 /\ created.startDate >= created.createdAt]_vars

\* C16 witness: a campaign created as "En espera" after the first minute is
\* persisted and not yet fetched.
C16_Witness ==
  /\ Len(campaigns) < Len(store)
  /\ store[Len(store)].status = Waiting
  /\ store[Len(store)].createdAt >= 1
  /\ store[Len(store)].startDate >= store[Len(store)].createdAt

\* No id occurs twice in the roster.
UniqueIds(roster) ==
  \A k, m \in DOMAIN roster : k # m => roster[k].id # roster[m].id

\* C17: an update persists the campaign with the roster it had, every person
\* once and in order, followed by the people added in the form; no person id
\* occurs twice.
C17_UpdateMergesRoster ==
  [][(store' # store /\ showForm /\ formCampaign # <<>>)
       => \A name \in CampaignNames, status \in CampaignStatus,
             startDate \in DateInputs, endDate \in DateInputs,
             recordingStatus \in RecordingInputs :
         handleSubmit(name, status, startDate, endDate, recordingStatus)
         => \A j \in DOMAIN store :
              (store[j].id = formCampaign[1].id /\ UniqueIds(store[j].people))
                => /\ UniqueIds(store'[j].people)
                   /\ Len(store'[j].people) >= Len(store[j].people)
                   /\ SubSeq(store'[j].people, 1, Len(store[j].people))
                        = store[j].people]_vars

\* C18: a pass changes the persisted list only if it changed a status, and
\* then it persists the list it returns; the list it returns has the
\* campaigns of the list loaded, in their order, each differing from the
\* loaded one in its status at most.
C18_ReadPathFrame ==
  [][QueryFn =>
       /\ store' # store
            => /\ store' = campaigns'
               /\ \E i \in DOMAIN store : campaigns'[i].status # store[i].status
       /\ Len(campaigns') = Len(store)
       /\ \A i \in DOMAIN store :
            campaigns'[i] = [store[i] EXCEPT !.status = campaigns'[i].status]]_vars

\* C18 witness: a pass has promoted a campaign that has two people: the list
\* returned is the persisted one, the roster is intact.
C18_Witness ==
  /\ campaigns = store
  /\ \E i \in DOMAIN store :
       /\ store[i].status = Active
       /\ store[i].createdAt < store[i].startDate
       /\ Len(store[i].people) = 2
       /\ UniqueIds(store[i].people)

\* What a save of the user is computed from is what is persisted: the list
\* CampaignList was rendered with is the persisted list, and the campaign
\* the edit form was mounted with is the persisted campaign.
BasisIsPersisted ==
  IF showForm /\ ~showForm'
    THEN formCampaign # <<>>
           => \E i \in DOMAIN store : propFields(store[i]) = formCampaign[1]
    ELSE campaigns = store

\* No campaign that stays persisted has its status moved backward.
NoStatusLost ==
  \A i \in DOMAIN store : \A j \in DOMAIN store' :
    store'[j].id = store[i].id
      => Rank(store'[j].status) >= Rank(store[i].status)

\* C11: a pass and a save of the user do not interleave destructively.  A
\* pass that saves after a save of the user saves the reconciled persisted
\* list; a save of the user that follows a save of the reconciler is
\* computed from what the reconciler persisted, so that it puts no status
\* behind the one persisted.
C11_NoDestructiveInterleaving ==
  [][/\ (lastWrite.by = "user" /\ lastWrite'.by = "reconciler")
          => store' = updateCampaignStatuses(store, now).updatedCampaigns
     /\ (lastWrite.by = "reconciler" /\ lastWrite'.by = "user")
          => BasisIsPersisted \/ NoStatusLost]_vars

\* C19: the pass that follows a save computed from a stale list persists,
\* for every campaign that save put behind, a status at least as advanced
\* as the one it had before the save.
C19_NextPassRestores ==
  [][QueryFn =>
       \A b \in lastWrite.behind : \A j \in DOMAIN store' :
         store'[j].id = b.id => Rank(store'[j].status) >= Rank(b.status)]_vars

\* The errors that apply to a submission, each check taken on its own.
applicableErrors(roster, name, lastName, phone) ==
  (IF isValidName(name) THEN {} ELSE {"nameError"})
    \cup (IF isValidName(lastName) THEN {} ELSE {"lastNameError"})
    \cup (IF isValidPhoneNumber(phone) THEN {} ELSE {"phoneError"})
    \cup (IF hasPhone(roster, phone) THEN {"duplicatePhone"} ELSE {})

\* C20: whenever the add-person overlay or the form is open, a press of
\* "Agregar" reports every error that applies to what the fields hold: the
\* name errors, the phone error and the duplicate phone.
C20_AllErrorsReported ==
  /\ \A i \in DOMAIN campaigns :
       addingPersonToCampaign = campaigns[i].id
         => \A n \in NameInputs, l \in NameInputs, ph \in PhoneInputs :
              applicableErrors(campaigns[i].people, n, l, formatPhoneNumber(ph))
                \subseteq personErrors(campaigns[i].people, n, l,
                                       formatPhoneNumber(ph))
  /\ showForm
       => \A n \in NameInputs, l \in NameInputs, ph \in PhoneInputs :
            applicableErrors(people, n, l, formatPhoneNumber(ph))
              \subseteq personErrors(people, n, l, formatPhoneNumber(ph))

\* The dates of a submission at time t are invalid: the end date is not
\* after the start date (the submission time for a campaign that is not
\* waiting), or a waiting campaign starts before the submission time.
InvalidDates(status, startDate, endDate, t) ==
  \/ status = Waiting /\ startDate < t
  \/ endDate <= (IF status = Waiting THEN startDate ELSE t)

\* The roster holds a phone with the digits of the given one.
DuplicatePhone(roster, phone) ==
  \E k \in DOMAIN roster : digitsOnly(roster[k].phone) = digitsOnly(phone)

\* C21: a rejected operation persists nothing.  A submission of the form
\* changes the persisted list only if the name is not blank, the roster is
\* not empty and the dates are valid; "Agregar" of the overlay changes it only
\* if both names are valid, the phone field has 7 to 15 digits and no person
\* of the roster it reads has a phone with the same digits.  (A submission
\* that saves closes the form, and an "Agregar" that saves takes a new id.)
C21_RejectedPersistsNothing ==
  [][store' # store =>
       /\ (showForm /\ ~showForm') =>
            \A name \in CampaignNames, status \in StatusInputs,
               startDate \in DateInputs, endDate \in DateInputs,
               recordingStatus \in RecordingInputs :
              handleSubmit(name, status, startDate, endDate, recordingStatus)
                => /\ trim(name) # <<>>
                   /\ Len(people) >= 1
                   /\ ~InvalidDates(status, startDate, endDate, now)
       /\ \A i \in DOMAIN campaigns :
            (addingPersonToCampaign = campaigns[i].id /\ uuid' # uuid) =>
              \A n \in NameInputs, l \in NameInputs, ph \in PhoneInputs :
                handleAddPerson(campaigns[i].id, n, l, ph)
                  => /\ isValidName(n)
                     /\ isValidName(l)
                     /\ Len(digitsOnly(formatPhoneNumber(ph))) \in 7..15
                     /\ ~DuplicatePhone(campaigns[i].people,
                                        formatPhoneNumber(ph))]_vars

\* C21 witness: the overlay is open for a persisted campaign whose roster is
\* full of phones a submission can repeat, and the form is open with an empty
\* roster: every rejection named can happen here.
C21_Witness ==
  /\ showForm
  /\ people = <<>>
  /\ campaigns = store
  /\ \E i \in DOMAIN store :
       /\ addingPersonToCampaign = store[i].id
       /\ \E ph \in PhoneInputs :
            /\ isValidPhoneNumber(formatPhoneNumber(ph))
            /\ hasPhone(store[i].people, formatPhoneNumber(ph))

\* C22: the phone persisted for a person added through the overlay has the
\* digits the user typed, all of them and in order, for every typed phone of
\* 7 to 15 digits.
C22_StoredPhoneKeepsDigits ==
  [][(store' # store /\ addingPersonToCampaign # 0) =>
       \A i \in DOMAIN campaigns :
         \A n \in NameInputs, l \in NameInputs, ph \in PhoneInputs :
           (/\ handleAddPerson(campaigns[i].id, n, l, ph)
            /\ uuid' # uuid
            /\ Len(digitsOnly(ph)) \in 7..15)
             => \E j \in DOMAIN store' :
                  /\ store'[j].id = campaigns[i].id
                  /\ LET roster == store'[j].people
                     IN digitsOnly(roster[Len(roster)].phone)
                          = digitsOnly(ph)]_vars


\* The number of digits among the characters of the string.
DigitCount(value) == Cardinality({i \in DOMAIN value : value[i] \in Digits})

\* C23: a phone is accepted by isValidPhoneNumber exactly if, not counting
\* the characters that are no digits, it has 7 to 15 digits: 6 and 16 digits
\* are rejected, 7 and 15 accepted.
C23_PhoneAcceptedIff7To15Digits ==
  probe.res # <<>> /\ probe.arg[1] \in PhoneProbes
    => LET phone == probe.arg[1] IN
         /\ probe.res[1] <=> (7 <= DigitCount(phone) /\ DigitCount(phone) <= 15)
         /\ DigitCount(phone) \in {6, 16} => ~probe.res[1]
         /\ DigitCount(phone) \in {7, 15} => probe.res[1]

\* C23 witness: a phone of 15 digits written with signs has been accepted.
C23_Witness ==
  /\ probe.res = <<TRUE>>
  /\ DigitCount(probe.arg[1]) = 15
  /\ Len(probe.arg[1]) > 15


C25_ActiveHasStarted ==
  \A i \in DOMAIN store :
    store[i].status = Active => parseDate(store[i].startDate) <= now

\* C25 witness: a campaign that was submitted as "Activa" after the first
\* minute is persisted as "Activa", and its start date has been reached.
C25_Witness ==
  \E i \in DOMAIN store :
    /\ store[i].status = Active
    /\ store[i].createdAt = store[i].startDate
    /\ store[i].startDate >= 1
    /\ parseDate(store[i].startDate) <= now


\* C29: finish and delete, relative to the list they start from (the rendered
\* list).  Finish saves that list with the status of the campaign with the
\* given id set to "Finalizada" and nothing else changed; delete saves it
\* without the campaign with the given id, the others as they were and in
\* their order.
C29_FinishAndDeleteFrame ==
  [][/\ \A i \in DOMAIN campaigns :
          (handleFinish(campaigns[i].id) /\ campaigns[i].status = Active)
            => /\ Len(store') = Len(campaigns)
               /\ \A k \in DOMAIN campaigns :
                    IF campaigns[k].id = campaigns[i].id
                      THEN store'[k] = [campaigns[k] EXCEPT !.status = Finished]
                      ELSE store'[k] = campaigns[k]
     /\ confirmDelete
          => /\ IsRemainder(store', campaigns, deletingCampaign)
             /\ \A k \in DOMAIN campaigns :
                  campaigns[k].id # deletingCampaign
                    => \E j \in DOMAIN store' : store'[j] = campaigns[k]]_vars

\* C29 witness: of two rendered campaigns the first has been finished by hand
\* before its end date; the second is persisted as it was rendered.
C29_Witness ==
  /\ Len(campaigns) = 2
  /\ Len(store) = 2
  /\ campaigns[1].status = Active
  /\ store[1] = [campaigns[1] EXCEPT !.status = Finished]
  /\ ~Passed(store[1].endDate, now)
  /\ store[2] = campaigns[2]
  /\ store[2].status = Waiting


\* The ids of the campaigns of a list, in its order.
IdsOf(cs) == [i \in DOMAIN cs |-> cs[i].id]

UniqueCampaignIds(cs) ==
  \A i, j \in DOMAIN cs : i # j => cs[i].id # cs[j].id

\* The campaigns of the list new that are in the list old by their id have
\* the createdAt they have there.
SameCreatedAt(old, new) ==
  \A i \in DOMAIN old : \A j \in DOMAIN new :
    new[j].id = old[i].id => new[j].createdAt = old[i].createdAt

C28_RosterOrderAndFrame ==
  [][store' # store =>
       \A i \in DOMAIN campaigns :
         /\ (/\ addingPersonToCampaign = campaigns[i].id
             /\ uuid' # uuid
             /\ AddPersonStep(campaigns[i].id))
              => \E j \in DOMAIN store' :
                   LET roster == store'[j].people IN
                     /\ Len(roster) = Len(campaigns[i].people) + 1
                     /\ roster[Len(roster)].id = uuid'
                     /\ store'[j] = [campaigns[i] EXCEPT !.people =
                                       Append(@, roster[Len(roster)])]
         /\ \A k \in DOMAIN campaigns[i].people :
              handleDeletePerson(campaigns[i].id, campaigns[i].people[k].id)
                => \E j \in DOMAIN store' :
                     /\ store'[j] = [campaigns[i] EXCEPT !.people =
                                       store'[j].people]
                     /\ IsRemainder(store'[j].people, campaigns[i].people,
                                    campaigns[i].people[k].id)]_vars

\* C28 witness: the second of three people has been removed from a campaign
\* and the first and the third are persisted in that order, and a person has
\* been added after the one person of the other campaign.
C28_Witness ==
  /\ Len(campaigns) = 2
  /\ Len(store) = 2
  /\ Len(campaigns[2].people) = 3
  /\ store[2].people = <<campaigns[2].people[1], campaigns[2].people[3]>>
  /\ Len(store[1].people) = 2
  /\ store[1].people[1] = campaigns[1].people[1]
  /\ store[1].people[2].id <= MaxUuid


\* The campaign with the given id is persisted.
Stored(id) == \E i \in DOMAIN store : store[i].id = id

\* It is persisted with the given status.
HasStatus(id, status) ==
  \E i \in DOMAIN store : store[i].id = id /\ store[i].status = status

\* It is persisted and its start date, resp. its end date, has passed.
StartPassed(id) ==
  \E i \in DOMAIN store : store[i].id = id /\ Passed(store[i].startDate, now)

EndPassed(id) ==
  \E i \in DOMAIN store : store[i].id = id /\ Passed(store[i].endDate, now)

\* Every campaign with one of the given ids is eventually reconciled: if it
\* is persisted as waiting and its start date has passed, it is eventually
\* "Activa" (or further, or deleted, or given a later start date); if its end
\* date has passed, it is from some time on "Finalizada" for as long as it is
\* persisted with an end date that has passed.
EventuallyReconciled(ids) ==
  \A id \in ids :
    /\ (HasStatus(id, Waiting) /\ StartPassed(id))
         ~> (\/ HasStatus(id, Active)
             \/ HasStatus(id, Finished)
             \/ ~Stored(id)
             \/ ~StartPassed(id))
    /\ EndPassed(id)
         ~> [](HasStatus(id, Finished) \/ ~EndPassed(id))

\* C27: with passes and ticks that are not put off forever, every persisted
\* campaign that is not deleted and whose start date has passed eventually
\* becomes "Activa", and every one whose end date has passed eventually
\* becomes "Finalizada" and stays so.  Stated for the campaigns the session
\* starts with.
C27_EventuallyReconciled == EventuallyReconciled(CampaignIds(Persisted))

\* The same for the campaigns created in a session that starts with none
\* (FairSpec).
CreatedEventuallyReconciled == EventuallyReconciled(1..MaxUuid)

\* C27 witness: passes have taken both persisted campaigns forward: the one
\* that was running is "Finalizada" after its end date, the one that was
\* waiting is "Activa" after its start date.
C27_Witness ==
  /\ lastWrite.by = "reconciler"
  /\ HasStatus(Persisted[1].id, Finished)
  /\ EndPassed(Persisted[1].id)
  /\ HasStatus(Persisted[2].id, Active)
  /\ StartPassed(Persisted[2].id)


=============================================================================
